---- MODULE Spec2Model ----
(***************************************************************************)
(* A model of youtube_stream_reupload.py: one run of main(), i.e. the      *)
(* sequential pipeline download -> authenticate -> resolve playlist ->     *)
(* compose metadata -> chunked upload -> thumbnail attach -> playlist      *)
(* attach, together with the files it reads and writes.                    *)
(*                                                                         *)
(* The external collaborators (yt-dlp, the OAuth library, the YouTube API  *)
(* client, the file system) are the environment: every call into them is a *)
(* nondeterministic choice among the outcomes the code distinguishes.      *)
(***************************************************************************)
EXTENDS Integers, Sequences, FiniteSets, TLC

(***************************************************************************)
(* Python values.  Every value is a record tagged with its type, so that   *)
(* values of different types can be compared.                              *)
(***************************************************************************)
None == [none |-> TRUE]
PyStr(chars) == [str |-> chars]
PyList(items) == [list |-> items]
PyInt(n) == [int |-> n]
PyDict(f) == [dict |-> f]

IsNone(v) == "none" \in DOMAIN v
IsStr(v) == "str" \in DOMAIN v
IsInt(v) == "int" \in DOMAIN v
IsDict(v) == "dict" \in DOMAIN v

\* bool(v): None, "", [], 0 and {} are falsy
Truthy(v) ==
    IF IsNone(v) THEN FALSE
    ELSE IF IsStr(v) THEN v.str # <<>>
    ELSE IF "list" \in DOMAIN v THEN v.list # <<>>
    ELSE IF IsInt(v) THEN v.int # 0
    ELSE IF IsDict(v) THEN DOMAIN v.dict # {}
    ELSE TRUE

\* a or b
Or(a, b) == IF Truthy(a) THEN a ELSE b

\* d.get(k, default)
Get(d, k, default) == IF k \in DOMAIN d.dict THEN d.dict[k] ELSE default

Abs(n) == IF n < 0 THEN 0 - n ELSE n

(***************************************************************************)
(* Bounds of the model.                                                    *)
(***************************************************************************)
\* chunk sends that report progress without completing the upload
MaxProgress == 1
\* expected file sizes are the multiples of 20 up to 20 * MaxUnits, so that
\* the 5% tolerance is a whole number of bytes
MaxUnits == 2
\* actual file sizes lie within Spread bytes of an expected size
Spread == 3
\* longest recording-date string enumerated character by character
MaxDateLen == 8
\* the longest playlist listing of SpecPlaylist
MaxPlaylists == 3

\* the retry budget of the chunk loop: `if retry > 5`
MaxRetries == 5

(***************************************************************************)
(* Files.                                                                  *)
(***************************************************************************)
Absent == [exists |-> FALSE]
File(size, readable) == [exists |-> TRUE, size |-> size, readable |-> readable]

\* _verify_file_integrity(filepath, expected_filesize).  The source compares
\* abs(size - expected) > expected * 0.05 in floating point; for integer
\* sizes this is the integer test 20 * |size - expected| > expected (the
\* double nearest 0.05 lies above 1/20, so the product never rounds below
\* an integral expected/20).
VerifyFileIntegrityStrict(file, expected_filesize) ==
    IF ~file.exists THEN FALSE
    ELSE IF file.size = 0 THEN FALSE
    ELSE IF Truthy(expected_filesize)
            /\ 20 * Abs(file.size - expected_filesize.int) >= expected_filesize.int
         THEN FALSE
    ELSE file.readable

VerifyFileIntegrity(file, expected_filesize) ==
    IF ~file.exists THEN FALSE
    ELSE IF file.size = 0 THEN FALSE
    ELSE IF Truthy(expected_filesize)
            /\ 20 * Abs(file.size - expected_filesize.int) > expected_filesize.int
         THEN FALSE
    ELSE file.readable

(***************************************************************************)
(* Strings that are inspected character by character.                      *)
(***************************************************************************)
Digits == {"0", "1", "2", "3", "4", "5", "6", "7", "8", "9"}

\* str.isdigit() on a non-empty string
IsDigitStr(chars) == chars # <<>> /\ \A i \in 1..Len(chars) : chars[i] \in Digits

Date20240115 == <<"2", "0", "2", "4", "0", "1", "1", "5">>
DateDashed == <<"2", "0", "2", "4", "-", "0", "1", "-", "1", "5">>
DateSuffix == <<"T00:00:00.000Z">>

\* f"{d[:4]}-{d[4:6]}-{d[6:8]}T00:00:00.000Z"
FormatRecordingDate(d) ==
    SubSeq(d, 1, 4) \o <<"-">> \o SubSeq(d, 5, 6) \o <<"-">> \o SubSeq(d, 7, 8)
        \o DateSuffix

(***************************************************************************)
(* Paths.  A path is a str whose characters are grouped into tokens: the   *)
(* separators "/" and "." and the names between them.                      *)
(***************************************************************************)
LastIndexOf(seq, tok) ==
    LET hits == {i \in 1..Len(seq) : seq[i] = tok}
    IN IF hits = {} THEN 0 ELSE CHOOSE i \in hits : \A j \in hits : j <= i

\* Path(p).stem: the final component without its last suffix
PathStem(p) ==
    LET name == SubSeq(p, LastIndexOf(p, "/") + 1, Len(p))
        dot == LastIndexOf(name, ".")
    IN IF dot <= 1 THEN name ELSE SubSeq(name, 1, dot - 1)

\* thumbnail_file.lower().split(".")[-1] (the extensions probed are lower case)
FileExt(p) == SubSeq(p, LastIndexOf(p, ".") + 1, Len(p))

OutputPath == <<"./downloads">>

\* ydl.prepare_filename(info) under outtmpl "{output_path}/%(title)s.%(ext)s";
\* yt-dlp writes "NA" for a field the info lacks
PrepareFilename(info, output_path) ==
    LET t == Get(info, "title", None)
    IN PyStr(output_path \o <<"/">> \o (IF Truthy(t) THEN t.str ELSE <<"NA">>)
                \o <<".", "mp4">>)

(***************************************************************************)
(* The metadata yt-dlp extracts: a dict that may lack any key but "id".    *)
(***************************************************************************)
Missing == [missing |-> TRUE]

InfoOf(fields) ==
    PyDict([k \in {f \in DOMAIN fields : fields[f] # Missing} \cup {"id"} |->
               IF k = "id" THEN PyStr(<<"src">>) ELSE fields[k]])

\* the metadata the pipeline is run on
Infos ==
    { InfoOf([title |-> PyStr(<<"B">>), description |-> PyStr(<<"D">>),
              tags |-> PyList(<<"t">>), upload_date |-> PyStr(Date20240115),
              filesize |-> PyInt(20), filesize_approx |-> Missing]),
      InfoOf([title |-> Missing, description |-> Missing,
              tags |-> Missing, upload_date |-> Missing,
              filesize |-> Missing, filesize_approx |-> Missing]),
      InfoOf([title |-> None, description |-> None,
              tags |-> PyList(<<>>), upload_date |-> PyStr(DateDashed),
              filesize |-> None, filesize_approx |-> PyInt(20)]),
      InfoOf([title |-> PyStr(<<"B">>), description |-> Missing,
              tags |-> PyList(<<"t">>), upload_date |-> PyInt(20240115),
              filesize |-> PyInt(0), filesize_approx |-> PyInt(0)]) }

(***************************************************************************)
(* process_stream, step 3: the upload metadata.                            *)
(***************************************************************************)
ThumbnailExtensions == <<"jpg", "jpeg", "png", "webp">>

\* the first of the probed extensions for which a sibling file exists
FindThumbnail(video_file, output_path, thumbs) ==
    LET hits == {i \in 1..Len(ThumbnailExtensions) : ThumbnailExtensions[i] \in thumbs}
    IN IF hits = {} THEN None
       ELSE LET i == CHOOSE h \in hits : \A j \in hits : h <= j
            IN PyStr(output_path \o <<"/">> \o PathStem(video_file.str)
                        \o <<".", ThumbnailExtensions[i]>>)

DefaultTitle(video_file) == PyStr(<<"Re-uploaded Stream - ">> \o PathStem(video_file.str))
DefaultDescription == PyStr(<<"Video downloaded from live stream and re-uploaded.">>)

ComposeMetadata(info, ov, video_file, output_path, thumbs) ==
    IF Truthy(info)
    THEN [title |-> Or(ov.upload_title, Get(info, "title", PyStr(<<"Unknown Title">>))),
          description |-> Or(ov.upload_description,
                             Get(info, "description", PyStr(<<"No description available">>))),
          tags |-> Or(ov.upload_tags, Get(info, "tags", PyList(<<>>))),
          category_id |-> PyStr(<<"28">>),
          recording_date |-> Get(info, "upload_date", None),
          default_language |-> Get(info, "language", None),
          thumbnail_file |-> FindThumbnail(video_file, output_path, thumbs)]
    ELSE [title |-> Or(ov.upload_title, DefaultTitle(video_file)),
          description |-> Or(ov.upload_description, DefaultDescription),
          tags |-> Or(ov.upload_tags, PyList(<<>>)),
          category_id |-> PyStr(<<"28">>),
          recording_date |-> None,
          default_language |-> None,
          thumbnail_file |-> None]

(***************************************************************************)
(* upload_video: the request body.                                         *)
(***************************************************************************)
\* len(recording_date) raises TypeError unless recording_date is a str; the
\* except clause then logs the warning
RecordingDateRaises(recording_date) == Truthy(recording_date) /\ ~IsStr(recording_date)

\* body["recordingDetails"]["recordingDate"], Missing when the key is not set
RecordingDate(recording_date) ==
    IF Truthy(recording_date) /\ IsStr(recording_date)
       /\ Len(recording_date.str) = 8 /\ IsDigitStr(recording_date.str)
    THEN PyStr(FormatRecordingDate(recording_date.str))
    ELSE Missing

Language(l) == IF Truthy(l) /\ Len(l.str) <= 5 THEN l ELSE PyStr(<<"en">>)

BuildBody(a, video_file, privacy_status) ==
    [title |-> Or(a.title, DefaultTitle(video_file)),
     description |-> Or(a.description, DefaultDescription),
     tags |-> Or(a.tags, PyList(<<>>)),
     categoryId |-> a.category_id,
     privacyStatus |-> privacy_status,
     recordingDate |-> RecordingDate(a.recording_date),
     defaultLanguage |-> Language(a.default_language),
     defaultAudioLanguage |-> PyStr(<<"en">>)]

(***************************************************************************)
(* Playlists.  Titles and search terms are strings of characters.          *)
(***************************************************************************)
UpperCase == <<"A", "B", "C", "D", "E", "F", "G", "H", "I", "J", "K", "L", "M",
               "N", "O", "P", "Q", "R", "S", "T", "U", "V", "W", "X", "Y", "Z">>
LowerCase == <<"a", "b", "c", "d", "e", "f", "g", "h", "i", "j", "k", "l", "m",
               "n", "o", "p", "q", "r", "s", "t", "u", "v", "w", "x", "y", "z">>

\* str.lower()
Lower(chars) ==
    [i \in 1..Len(chars) |->
        IF \E k \in 1..26 : UpperCase[k] = chars[i]
        THEN LowerCase[CHOOSE k \in 1..26 : UpperCase[k] = chars[i]]
        ELSE chars[i]]

\* sub in s
Contains(sub, s) ==
    \E i \in 0..(Len(s) - Len(sub)) : SubSeq(s, i + 1, i + Len(sub)) = sub

TitleFoo == <<"F", "o", "o">>
TitleBar == <<"B", "a", "r">>
TitleTalks == <<"C", "y", "b", "e", "r", "s", "e", "c", " ", "T", "u", "e", "s", "d", "a", "y", " ", "T", "a", "l", "k", "s">>
TitleNotes == <<"c", "y", "b", "e", "r", "s", "e", "c", " ", "n", "o", "t", "e", "s">>
WordCybersec == <<"c", "y", "b", "e", "r", "s", "e", "c">>
WordTuesday == <<"t", "u", "e", "s", "d", "a", "y">>
TermFoo == <<"F", "O", "O">>

Playlist(id, title) == [id |-> PyStr(<<id>>), title |-> title]

\* what playlists().list returns for the account (all pages), or that it raised
Listings ==
    { [raised |-> TRUE, items |-> <<>>],
      [raised |-> FALSE, items |-> <<>>],
      [raised |-> FALSE, items |-> <<Playlist("PLfoo", TitleFoo), Playlist("PLbar", TitleBar)>>],
      [raised |-> FALSE, items |-> <<Playlist("PLnotes", TitleNotes),
                                     Playlist("PLtalks", TitleTalks),
                                     Playlist("PLfoo", TitleFoo)>>] }

\* list_playlists() once the client exists: any exception yields []
ListPlaylists(listing) == IF listing.raised THEN <<>> ELSE listing.items

\* find_playlist_by_name, were it to compare without lower()
FindPlaylistByNameCaseSensitive(playlists, search_term) ==
    SelectSeq(playlists, LAMBDA p : Contains(search_term, p.title))

\* find_playlist_by_name(search_term)
FindPlaylistByName(playlists, search_term) ==
    SelectSeq(playlists, LAMBDA p : Contains(Lower(search_term), Lower(p.title)))

IsCybersecTuesday(p) ==
    Contains(WordCybersec, Lower(p.title)) /\ Contains(WordTuesday, Lower(p.title))

\* process_stream, step 2.5: the playlist the video goes to
ResolvePlaylist(playlist_id, playlist_search, listing) ==
    IF Truthy(playlist_search) /\ ~Truthy(playlist_id)
    THEN LET matches == FindPlaylistByName(ListPlaylists(listing), playlist_search.str)
             cyber == SelectSeq(matches, IsCybersecTuesday)
         IN IF matches = <<>> THEN playlist_id
            ELSE IF cyber # <<>> THEN cyber[1].id
            ELSE matches[1].id
    ELSE playlist_id

(***************************************************************************)
(* authenticate_youtube.  The token file is absent, or holds a credential  *)
(* that is valid, that is expired with a refresh token ("expired"), or     *)
(* that can be neither used nor refreshed ("unusable").  Each outcome      *)
(* gives the return value ("raise": an exception leaves the function), the *)
(* branch taken, the token file afterwards and whether it was written.     *)
(***************************************************************************)
TokenStates == {"absent", "valid", "expired", "unusable"}

AuthOutcome(ret, path, token, wrote) ==
    [ret |-> ret, path |-> path, token |-> token, wrote |-> wrote]

AuthenticateYoutubeOutcomesAlwaysWrite(token, credentials_exist) ==
    IF token = "valid"
    THEN {AuthOutcome("True", "reuse", "valid", TRUE)}
    ELSE IF token = "expired"
    THEN {AuthOutcome("True", "refresh", "valid", TRUE),
          AuthOutcome("raise", "refresh_failed", token, FALSE)}
    ELSE IF ~credentials_exist
    THEN {AuthOutcome("False", "no_credentials", token, FALSE)}
    ELSE {AuthOutcome("True", "flow", "valid", TRUE),
          AuthOutcome("raise", "flow_failed", token, FALSE)}

AuthenticateYoutubeOutcomes(token, credentials_exist) ==
    IF token = "valid"
    THEN {AuthOutcome("True", "reuse", token, FALSE)}
    ELSE IF token = "expired"
    THEN {AuthOutcome("True", "refresh", "valid", TRUE),
          AuthOutcome("raise", "refresh_failed", token, FALSE)}
    ELSE IF ~credentials_exist
    THEN {AuthOutcome("False", "no_credentials", token, FALSE)}
    ELSE {AuthOutcome("True", "flow", "valid", TRUE),
          AuthOutcome("raise", "flow_failed", token, FALSE)}

NoAuth == [called |-> FALSE]
AuthCall(before, o) ==
    [called |-> TRUE, before |-> before, ret |-> o.ret, path |-> o.path]

(***************************************************************************)
(* download_stream.  `disk` is the file at the resolved target path.  Each *)
(* outcome gives the returned pair, the file afterwards and what the call  *)
(* did: whether the integrity check ran and what it said, whether the old  *)
(* file was removed, how often ydl.download was invoked.                   *)
(***************************************************************************)
NewFile == File(20, TRUE)

DownloadOutcome(video_file, info, disk, d) ==
    [video_file |-> video_file, info |-> info, disk |-> disk,
     called |-> TRUE, existed |-> d.existed, filename |-> d.filename,
     expected |-> d.expected, checked |-> d.checked,
     verified |-> d.verified, remove_tried |-> d.remove_tried,
     removed |-> d.removed, engine_calls |-> d.engine_calls]

NoDownload == [called |-> FALSE]

\* extract_info raised: nothing else ran
DownloadExtractFailed(disk) ==
    DownloadOutcome(None, None, disk,
        [existed |-> disk.exists, filename |-> None, expected |-> None,
         checked |-> FALSE, verified |-> FALSE, remove_tried |-> FALSE,
         removed |-> FALSE, engine_calls |-> 0])

DownloadWith(disk, info, output_path) ==
    LET filename == PrepareFilename(info, output_path)
        expected_filesize == Or(Get(info, "filesize", None),
                                Get(info, "filesize_approx", None))
        valid == VerifyFileIntegrity(disk, expected_filesize)
        d0 == [existed |-> disk.exists, filename |-> filename,
               expected |-> expected_filesize, checked |-> disk.exists,
               verified |-> disk.exists /\ valid, remove_tried |-> FALSE,
               removed |-> FALSE, engine_calls |-> 0]
    IN IF disk.exists /\ valid
       THEN {DownloadOutcome(filename, info, disk, d0)}
       ELSE LET \* os.remove succeeds, or raises and is logged
                removals == IF disk.exists THEN {TRUE, FALSE} ELSE {FALSE}
                after(r) == IF r THEN Absent ELSE disk
                d1(r) == [d0 EXCEPT !.remove_tried = disk.exists, !.removed = r,
                                    !.engine_calls = 1]
            IN  \* ydl.download raises
                {DownloadOutcome(None, None, after(r), d1(r)) : r \in removals}
                \cup
                \* ydl.download returns; the file is at `filename`, or the
                \* engine left its output elsewhere
                {DownloadOutcome(filename, info, NewFile, d1(r)) : r \in removals}
                \cup
                {DownloadOutcome(filename, info, after(r), d1(r)) : r \in removals}

DownloadStreamOutcomesRedownload(disk, infos, output_path) ==
    {DownloadExtractFailed(disk)}
    \cup UNION {DownloadWith(disk, info, output_path) : info \in infos}
    \cup UNION {DownloadWith(Absent, info, output_path) : info \in infos}

DownloadStreamOutcomes(disk, infos, output_path) ==
    {DownloadExtractFailed(disk)}
    \cup UNION {DownloadWith(disk, info, output_path) : info \in infos}

(***************************************************************************)
(* The chunked upload.                                                     *)
(***************************************************************************)
HttpStatuses == {403, 500, 501, 502, 503, 504}

\* e.resp.status in [500, 502, 503, 504]
RetriableAll5xx(status) == status >= 500
Retriable(status) == status \in {500, 502, 503, 504}

\* what next_chunk() returns when the upload completes
Responses ==
    { PyDict([id |-> PyStr(<<"vid">>), kind |-> PyStr(<<"youtube#video">>)]),
      PyDict([kind |-> PyStr(<<"youtube#video">>)]),
      PyDict(<<>>) }

NoChunk == [kind |-> "none"]

\* `if retry > 5`
RetriesExhaustedAtFive(retry) == retry >= MaxRetries
RetriesExhausted(retry) == retry > MaxRetries

(***************************************************************************)
(* _upload_thumbnail with _convert_thumbnail_to_jpeg, and _add_to_playlist.*)
(* Each outcome gives the calls made to the hosting API, whether a         *)
(* converted file was produced and whether it is still on disk, and the    *)
(* warnings logged.                                                        *)
(***************************************************************************)
DirectThumbnailExts == {<<"jpg">>, <<"jpeg">>, <<"png">>}

\* thumbnail_file.rsplit(".", 1)[0] + "_converted.jpg"
ConvertedPath(thumbnail_file) ==
    LET p == thumbnail_file.str
        dot == LastIndexOf(p, ".")
    IN PyStr((IF dot = 0 THEN p ELSE SubSeq(p, 1, dot - 1)) \o <<"_converted.jpg">>)

\* one way through _upload_thumbnail: the API calls made, whether the
\* conversion wrote its file, the paths os.remove deleted, whether the
\* converted file is still on disk at the return, the warnings logged
ThumbOutcome(calls, produced, removed, left, warnings) ==
    [calls |-> calls, produced |-> produced, removed |-> removed, left |-> left,
     warnings |-> warnings]

UploadThumbnailOutcomes(thumbnail_file) ==
    IF FileExt(thumbnail_file.str) \in DirectThumbnailExts
    THEN { ThumbOutcome(<<"thumbnails.set">>, FALSE, {}, FALSE, {}),
           ThumbOutcome(<<"thumbnails.set">>, FALSE, {}, FALSE, {"thumbnail_failed"}) }
    ELSE { \* conversion unavailable or failed: nothing is attached
           ThumbOutcome(<<>>, FALSE, {}, FALSE, {"thumbnail_not_converted"}),
           \* converted, attached, removed
           ThumbOutcome(<<"thumbnails.set">>, TRUE, {ConvertedPath(thumbnail_file)},
                        FALSE, {}),
           \* converted, attached, os.remove raised
           ThumbOutcome(<<"thumbnails.set">>, TRUE, {}, TRUE, {"converted_not_removed"}),
           \* converted, the attach call raised: the removal is skipped
           ThumbOutcome(<<"thumbnails.set">>, TRUE, {}, TRUE, {"thumbnail_failed"}) }

\* _add_to_playlist, were it to repeat a failed insert once
AddToPlaylistOutcomesRetried ==
    { [calls |-> <<"playlistItems.insert">>, warnings |-> {}],
      [calls |-> <<"playlistItems.insert", "playlistItems.insert">>,
       warnings |-> {"playlist_failed"}] }

\* one way through _add_to_playlist: the insert is sent once, and may raise
AddToPlaylistOutcomes ==
    { [calls |-> <<"playlistItems.insert">>, warnings |-> {}],
      [calls |-> <<"playlistItems.insert">>, warnings |-> {"playlist_failed"}] }

(***************************************************************************)
(* The command line.                                                       *)
(***************************************************************************)
Args(list_playlists, download_only, title, description, tags, playlist, playlist_search) ==
    [list_playlists |-> list_playlists, download_only |-> download_only,
     title |-> title, description |-> description, tags |-> tags,
     playlist |-> playlist, playlist_search |-> playlist_search]

ArgsSamples ==
    { Args(TRUE, FALSE, None, None, None, None, None),
      Args(FALSE, TRUE, None, None, None, None, None),
      Args(FALSE, FALSE, None, None, None, None, None),
      Args(FALSE, FALSE, PyStr(<<"A">>), PyStr(<<"OD">>), PyList(<<"ot">>),
           PyStr(<<"PLarg">>), None),
      Args(FALSE, FALSE, None, None, None, None, PyStr(WordCybersec)),
      Args(FALSE, FALSE, PyStr(<<"A">>), None, None, PyStr(<<"PLarg">>), PyStr(TermFoo)),
      Args(FALSE, FALSE, None, PyStr(<<"OD">>), None, None, PyStr(TermFoo)) }

\* the keyword arguments main passes to process_stream
Overrides(a) ==
    [upload_title |-> a.title, upload_description |-> a.description,
     upload_tags |-> a.tags]

PrivacyStatus == PyStr(<<"private">>)

(***************************************************************************)
(* State.                                                                  *)
(***************************************************************************)
VARIABLES
    pc,               \* where main() is
    args,             \* the parsed command line
    videoOnDisk,      \* the file at the resolved target path
    tokenFile,        \* the token file: one of TokenStates
    tokenWrites,      \* how often the token file has been written
    credentialsFile,  \* whether the credentials file exists
    convertedOnDisk,  \* whether a converted thumbnail is on disk
    youtube,          \* self.youtube is set
    video_file, info, \* what download_stream returned
    dl,               \* the last download_stream call, for inspection
    au,               \* the last authenticate_youtube call, for inspection
    sel,              \* the last playlist resolution, for inspection
    th,               \* the last _upload_thumbnail call, for inspection
    ps,               \* process_stream's locals
    body,             \* upload_video: the request body
    retry, response,  \* upload_video: the chunk loop
    video_id,         \* upload_video: the video ID (its return value)
    progress,         \* chunk sends that reported progress
    errors5xx,        \* chunk sends that failed with a retriable status
    chunkSends,       \* calls of next_chunk
    lastChunk,        \* the outcome of the last call of next_chunk
    calls,            \* the side-effect calls made to the hosting API, in order
    stages,           \* the pipeline stages entered, in order
    result,           \* what process_stream returned
    exitCode,         \* the exit status, -1 while running
    uncaught,         \* the run ended in an uncaught exception
    log               \* the warnings and errors logged

vars == <<pc, args, videoOnDisk, tokenFile, tokenWrites, credentialsFile,
          convertedOnDisk, youtube, video_file, info, dl, au, sel, th, ps, body,
          retry, response, video_id, progress, errors5xx, chunkSends, lastChunk,
          calls, stages, result, exitCode, uncaught, log>>

disk_vars == <<videoOnDisk, tokenFile, tokenWrites, credentialsFile, convertedOnDisk>>
upload_vars == <<body, retry, response, video_id, progress, errors5xx, chunkSends,
                 lastChunk, calls, th>>

NoBody == [built |-> FALSE]
NoFrame == [active |-> FALSE]
NoSel == [called |-> FALSE]
NoThumb == [called |-> FALSE]

\* the existing files the pipeline is run on
DiskSamples ==
    {Absent, File(0, TRUE), File(20, TRUE), File(22, TRUE)}

\* nothing has been uploaded, logged or returned yet
FreshUpload ==
    /\ convertedOnDisk = FALSE
    /\ tokenWrites = 0
    /\ au = NoAuth /\ sel = NoSel /\ th = NoThumb
    /\ body = NoBody
    /\ retry = 0 /\ response = None /\ video_id = None
    /\ progress = 0 /\ errors5xx = 0 /\ chunkSends = 0 /\ lastChunk = NoChunk
    /\ calls = <<>> /\ stages = <<>>
    /\ result = "pending" /\ exitCode = -1 /\ uncaught = FALSE
    /\ log = {}

Init ==
    /\ pc = "main"
    /\ args \in ArgsSamples
    /\ videoOnDisk \in DiskSamples
    /\ tokenFile \in TokenStates
    /\ credentialsFile \in BOOLEAN
    /\ youtube = FALSE
    /\ video_file = None /\ info = None
    /\ dl = NoDownload
    /\ ps = NoFrame
    /\ FreshUpload

\* the process ends: sys.exit(code), falling off main, or an uncaught exception
Exit(code, res, exc) ==
    /\ pc' = "exit"
    /\ exitCode' = code
    /\ result' = res
    /\ uncaught' = exc

(***************************************************************************)
(* main                                                                    *)
(***************************************************************************)
Main ==
    /\ pc = "main"
    /\ pc' = IF args.list_playlists THEN "list_playlists" ELSE "download"
    /\ UNCHANGED <<args, disk_vars, youtube, video_file, info, dl, au, sel, ps,
                   upload_vars, stages, result, exitCode, uncaught, log>>

\* main, --list-playlists: list_playlists() authenticates first; a False from
\* authenticate_youtube and any exception of the listing give [], and the
\* branch ends in sys.exit(0)
ListPlaylistsMode ==
    /\ pc = "list_playlists"
    /\ \E o \in AuthenticateYoutubeOutcomes(tokenFile, credentialsFile), listing \in Listings :
          /\ au' = AuthCall(tokenFile, o)
          /\ tokenFile' = o.token
          /\ tokenWrites' = tokenWrites + (IF o.wrote THEN 1 ELSE 0)
          /\ youtube' = (o.ret = "True")
          /\ stages' = Append(stages, "authenticate")
          /\ IF o.ret = "raise"
             THEN /\ Exit(1, result, TRUE)
                  /\ UNCHANGED <<sel, log>>
             ELSE /\ Exit(0, result, FALSE)
                  /\ sel' = IF o.ret = "True"
                            THEN [called |-> TRUE, listing |-> listing,
                                  playlists |-> ListPlaylists(listing)]
                            ELSE [called |-> TRUE, listing |-> [raised |-> FALSE, items |-> <<>>],
                                  playlists |-> <<>>]
                  /\ log' = log \cup (IF o.ret = "False" THEN {"credentials_missing"} ELSE {})
                                \cup (IF o.ret = "True" /\ listing.raised
                                      THEN {"list_failed"} ELSE {})
    /\ UNCHANGED <<args, videoOnDisk, credentialsFile, convertedOnDisk, video_file,
                   info, dl, ps, upload_vars>>

\* download_stream, called by main or by process_stream
DownloadStream ==
    /\ pc = "download"
    /\ \E o \in DownloadStreamOutcomes(videoOnDisk, Infos, OutputPath) :
          /\ video_file' = o.video_file
          /\ info' = o.info
          /\ videoOnDisk' = o.disk
          /\ dl' = [o EXCEPT !.disk = videoOnDisk]
          /\ log' = log \cup (IF o.video_file = None THEN {"download_error"} ELSE {})
    /\ stages' = Append(stages, "download")
    /\ pc' = "downloaded"
    /\ UNCHANGED <<args, tokenFile, tokenWrites, credentialsFile, convertedOnDisk,
                   youtube, au, sel, ps, upload_vars, result, exitCode, uncaught>>

\* main, --download-only
DownloadOnly ==
    /\ pc = "downloaded"
    /\ args.download_only
    /\ Exit(IF Truthy(video_file) THEN 0 ELSE 1, result, FALSE)
    /\ UNCHANGED <<args, disk_vars, youtube, video_file, info, dl, au, sel, ps,
                   upload_vars, stages, log>>

\* process_stream, step 1: the download must have produced a file on disk
ProcessStreamDownloaded ==
    /\ pc = "downloaded"
    /\ ~args.download_only
    /\ IF ~Truthy(video_file) \/ ~videoOnDisk.exists
       THEN /\ Exit(1, "False", FALSE)
            /\ log' = log \cup {"failed_to_download"}
            /\ UNCHANGED dl
       ELSE /\ pc' = "authenticate"
            /\ dl' = NoDownload
            /\ UNCHANGED <<result, exitCode, uncaught, log>>
    /\ UNCHANGED <<args, disk_vars, youtube, video_file, info, au, sel, ps,
                   upload_vars, stages>>

\* process_stream, step 2
Authenticate ==
    /\ pc = "authenticate"
    /\ \E o \in AuthenticateYoutubeOutcomes(tokenFile, credentialsFile) :
          /\ au' = AuthCall(tokenFile, o)
          /\ tokenFile' = o.token
          /\ tokenWrites' = tokenWrites + (IF o.wrote THEN 1 ELSE 0)
          /\ youtube' = (o.ret = "True")
          /\ IF o.ret = "True"
             THEN /\ pc' = "select_playlist"
                  /\ UNCHANGED <<result, exitCode, uncaught, log>>
             ELSE IF o.ret = "False"
             THEN /\ Exit(1, "False", FALSE)
                  /\ log' = log \cup {"credentials_missing", "failed_to_authenticate"}
             ELSE /\ Exit(1, "raised", TRUE)
                  /\ UNCHANGED log
    /\ stages' = Append(stages, "authenticate")
    /\ UNCHANGED <<args, videoOnDisk, credentialsFile, convertedOnDisk, video_file,
                   info, dl, sel, ps, upload_vars>>

\* process_stream, step 2.5, the account's listing being one of listings
SelectPlaylistFrom(listings) ==
    /\ pc = "select_playlist"
    /\ IF Truthy(args.playlist_search) /\ ~Truthy(args.playlist)
       THEN \E listing \in listings :
               LET id == ResolvePlaylist(args.playlist, args.playlist_search, listing)
               IN /\ ps' = [active |-> TRUE, playlist_id |-> id]
                  /\ sel' = [called |-> TRUE, listing |-> listing,
                             playlists |-> ListPlaylists(listing),
                             matches |-> FindPlaylistByName(ListPlaylists(listing),
                                                            args.playlist_search.str)]
                  /\ log' = log \cup (IF listing.raised THEN {"list_failed"} ELSE {})
                                \cup (IF ~Truthy(id) THEN {"no_playlist_found"} ELSE {})
       ELSE /\ ps' = [active |-> TRUE, playlist_id |-> args.playlist]
            /\ sel' = NoSel
            /\ UNCHANGED log
    /\ au' = NoAuth
    /\ pc' = "compose"
    /\ UNCHANGED <<args, disk_vars, youtube, video_file, info, dl, upload_vars,
                   stages, result, exitCode, uncaught>>

SelectPlaylist == SelectPlaylistFrom(Listings)

\* the thumbnails yt-dlp left beside the video
ThumbSets == {{}, {"png", "webp"}, {"webp"}}

\* process_stream, step 3
Compose ==
    /\ pc = "compose"
    /\ \E thumbs \in ThumbSets :
          ps' = [active |-> TRUE, playlist_id |-> ps.playlist_id,
                 meta |-> ComposeMetadata(info, Overrides(args), video_file,
                                          OutputPath, thumbs)]
    /\ sel' = NoSel
    /\ stages' = Append(stages, "compose")
    /\ pc' = "upload_video"
    /\ UNCHANGED <<args, disk_vars, youtube, video_file, info, dl, au, upload_vars,
                   result, exitCode, uncaught, log>>

(***************************************************************************)
(* upload_video                                                            *)
(***************************************************************************)
\* ReturnFromUpload, were main to drop `if not success: sys.exit(1)`
ReturnFromUploadExitsZero(id) ==
    /\ video_id' = id
    /\ IF Truthy(id)
       THEN Exit(0, "True", FALSE)
       ELSE Exit(0, "False", FALSE)

\* upload_video returns to process_stream, which returns to main
ReturnFromUpload(id) ==
    /\ video_id' = id
    /\ IF Truthy(id)
       THEN Exit(0, "True", FALSE)
       ELSE Exit(1, "False", FALSE)

\* the entry checks, the request body and the insert request
UploadVideoBegin ==
    /\ pc = "upload_video"
    /\ stages' = Append(stages, "upload")
    /\ IF ~youtube
       THEN /\ ReturnFromUpload(None)
            /\ log' = log \cup {"not_authenticated", "upload_failed"}
            /\ UNCHANGED <<body, retry, response>>
       ELSE IF ~videoOnDisk.exists
       THEN /\ ReturnFromUpload(None)
            /\ log' = log \cup {"video_file_not_found", "upload_failed"}
            /\ UNCHANGED <<body, retry, response>>
       ELSE /\ body' = BuildBody(ps.meta, video_file, PrivacyStatus)
            /\ log' = log \cup (IF RecordingDateRaises(ps.meta.recording_date)
                                THEN {"invalid_recording_date"} ELSE {})
            /\ retry' = 0
            /\ response' = None
            /\ pc' = "next_chunk"
            /\ UNCHANGED <<video_id, result, exitCode, uncaught>>
    /\ UNCHANGED <<args, disk_vars, youtube, video_file, info, dl, au, sel, th, ps,
                   progress, errors5xx, chunkSends, lastChunk, calls>>

\* one iteration of `while response is None`, with the handlers around it
NextChunk ==
    /\ pc = "next_chunk"
    /\ chunkSends' = chunkSends + 1
    /\ \/ \* (status, None): a chunk went through, the upload is not complete
          /\ progress < MaxProgress
          /\ progress' = progress + 1
          /\ lastChunk' = [kind |-> "progress"]
          /\ UNCHANGED <<pc, retry, response, video_id, errors5xx, result, exitCode,
                         uncaught, log>>
       \/ \* (status, response): the upload is complete
          \E r \in Responses :
             /\ response' = r
             /\ lastChunk' = [kind |-> "complete"]
             /\ IF Truthy(r)
                THEN /\ video_id' = Get(r, "id", None)
                     /\ pc' = "thumbnail"
                     /\ log' = log \cup {"upload_successful"}
                     /\ UNCHANGED <<result, exitCode, uncaught>>
                ELSE /\ ReturnFromUpload(None)
                     /\ log' = log \cup {"upload_failed"}
             /\ UNCHANGED <<retry, progress, errors5xx>>
       \/ \* HttpError
          \E status \in HttpStatuses :
             /\ lastChunk' = [kind |-> "http", status |-> status]
             /\ IF Retriable(status)
                THEN /\ retry' = retry + 1
                     /\ IF RetriesExhausted(retry + 1)
                        THEN /\ ReturnFromUpload(None)
                             /\ log' = log \cup {"too_many_retries", "upload_failed"}
                        ELSE UNCHANGED <<pc, video_id, result, exitCode, uncaught, log>>
                ELSE \* re-raised, caught by the outer `except HttpError`
                     /\ ReturnFromUpload(None)
                     /\ log' = log \cup {"http_error", "upload_failed"}
                     /\ UNCHANGED retry
             /\ errors5xx' = errors5xx + (IF status \in {500, 502, 503, 504} THEN 1 ELSE 0)
             /\ UNCHANGED <<response, progress>>
       \/ \* any other exception
          /\ lastChunk' = [kind |-> "exception"]
          /\ ReturnFromUpload(None)
          /\ log' = log \cup {"unexpected_error", "upload_failed"}
          /\ UNCHANGED <<retry, response, progress, errors5xx>>
    /\ UNCHANGED <<args, disk_vars, youtube, video_file, info, dl, au, sel, th, ps,
                   body, calls, stages>>

\* Thumbnail, were a failure of the attach call to leave _upload_thumbnail:
\* the outer handler of upload_video would return None
ThumbnailFailurePropagates ==
    /\ pc = "thumbnail"
    /\ IF Truthy(ps.meta.thumbnail_file)
       THEN \E o \in UploadThumbnailOutcomes(ps.meta.thumbnail_file) :
               /\ th' = [called |-> TRUE, thumbnail_file |-> ps.meta.thumbnail_file,
                            produced |-> o.produced, removed |-> o.removed,
                            calls |-> o.calls]
               /\ calls' = calls \o o.calls
               /\ convertedOnDisk' = o.left
               /\ log' = log \cup o.warnings
               /\ IF "thumbnail_failed" \in o.warnings
                  THEN ReturnFromUpload(None)
                  ELSE pc' = "playlist" /\ UNCHANGED <<video_id, result, exitCode, uncaught>>
       ELSE /\ pc' = "playlist"
            /\ UNCHANGED <<th, calls, convertedOnDisk, log, video_id, result, exitCode,
                           uncaught>>
    /\ UNCHANGED <<args, videoOnDisk, tokenFile, tokenWrites, credentialsFile, youtube,
                   video_file, info, dl, au, sel, ps, body, retry, response,
                   progress, errors5xx, chunkSends, lastChunk, stages>>

\* `if thumbnail_file and os.path.exists(thumbnail_file)`: _upload_thumbnail
Thumbnail ==
    /\ pc = "thumbnail"
    /\ IF Truthy(ps.meta.thumbnail_file)
       THEN \E o \in UploadThumbnailOutcomes(ps.meta.thumbnail_file) :
               /\ th' = [called |-> TRUE, thumbnail_file |-> ps.meta.thumbnail_file,
                            produced |-> o.produced, removed |-> o.removed,
                            calls |-> o.calls]
               /\ calls' = calls \o o.calls
               /\ convertedOnDisk' = o.left
               /\ log' = log \cup o.warnings
       ELSE UNCHANGED <<th, calls, convertedOnDisk, log>>
    /\ pc' = "playlist"
    /\ UNCHANGED <<args, videoOnDisk, tokenFile, tokenWrites, credentialsFile, youtube,
                   video_file, info, dl, au, sel, ps, body, retry, response, video_id,
                   progress, errors5xx, chunkSends, lastChunk, stages, result,
                   exitCode, uncaught>>

\* `if playlist_id`: _add_to_playlist; then `return video_id`
AddToPlaylist ==
    /\ pc = "playlist"
    /\ IF Truthy(ps.playlist_id)
       THEN \E o \in AddToPlaylistOutcomes :
               /\ calls' = calls \o o.calls
               /\ log' = log \cup o.warnings
                             \cup (IF Truthy(video_id) THEN {} ELSE {"upload_failed"})
       ELSE /\ log' = log \cup (IF Truthy(video_id) THEN {} ELSE {"upload_failed"})
            /\ UNCHANGED calls
    /\ ReturnFromUpload(video_id)
    /\ UNCHANGED <<args, disk_vars, youtube, video_file, info, dl, au, sel, th, ps,
                   body, retry, response, progress, errors5xx, chunkSends, lastChunk,
                   stages>>

Next ==
    \/ Main
    \/ ListPlaylistsMode
    \/ DownloadStream
    \/ DownloadOnly
    \/ ProcessStreamDownloaded
    \/ Authenticate
    \/ SelectPlaylist
    \/ Compose
    \/ UploadVideoBegin
    \/ NextChunk
    \/ Thumbnail
    \/ AddToPlaylist

Spec == Init /\ [][Next]_vars

(***************************************************************************)
(* _verify_file_integrity called on its own: every file size around the    *)
(* expected sizes, every expected size, readable or not.                   *)
(***************************************************************************)
WideSizes == {0} \cup {20 * k + d : k \in 1..MaxUnits, d \in (0 - Spread)..Spread}
WideExpected == {None, PyInt(0)} \cup {PyInt(20 * k) : k \in 1..MaxUnits}
WideFiles == {Absent} \cup {File(size, r) : size \in WideSizes, r \in BOOLEAN}

InitIntegrity ==
    /\ pc = "verify"
    /\ args = Args(FALSE, TRUE, None, None, None, None, None)
    /\ videoOnDisk \in WideFiles
    /\ tokenFile = "absent"
    /\ credentialsFile = FALSE
    /\ youtube = FALSE
    /\ video_file = None /\ info = None
    /\ dl \in {[called |-> FALSE, expected |-> e] : e \in WideExpected}
    /\ ps = NoFrame
    /\ FreshUpload

VerifyFile ==
    /\ pc = "verify"
    /\ dl' = [called |-> TRUE, disk |-> videoOnDisk, expected |-> dl.expected,
              checked |-> TRUE,
              verified |-> VerifyFileIntegrity(videoOnDisk, dl.expected)]
    /\ log' = log \cup (IF VerifyFileIntegrity(videoOnDisk, dl.expected)
                        THEN {} ELSE {"integrity_failed"})
    /\ pc' = "verified"
    /\ UNCHANGED <<args, disk_vars, youtube, video_file, info, au, sel, ps,
                   upload_vars, stages, result, exitCode, uncaught>>

SpecIntegrity == InitIntegrity /\ [][VerifyFile]_vars

(***************************************************************************)
(* process_stream from step 3 on, for every combination of overrides and   *)
(* extracted fields, and for every recording date up to MaxDateLen         *)
(* characters.                                                             *)
(***************************************************************************)
DateChars == {"0", "9", "-"}
DateStrings ==
    {Date20240115, DateDashed}
    \cup UNION {[1..n -> DateChars] : n \in 0..MaxDateLen}

TextField(v) == {Missing, None, PyStr(<<v>>)}

WideInfos ==
    { InfoOf([title |-> t, description |-> d, tags |-> g, upload_date |-> u]) :
        t \in TextField("B"), d \in TextField("D"),
        g \in {Missing, PyList(<<>>), PyList(<<"t">>)},
        u \in {Missing, None, PyInt(20240115), PyStr(Date20240115), PyStr(DateDashed)} }

DateInfos ==
    { InfoOf([title |-> PyStr(<<"B">>), upload_date |-> PyStr(d)]) : d \in DateStrings }

WideArgs ==
    { Args(FALSE, FALSE, t, d, g, None, None) :
        t \in {None, PyStr(<<"A">>)}, d \in {None, PyStr(<<"OD">>)},
        g \in {None, PyList(<<"ot">>)} }

InitCompose ==
    /\ pc = "compose"
    /\ \/ args \in WideArgs /\ info \in WideInfos
       \/ args = Args(FALSE, FALSE, None, None, None, None, None) /\ info \in DateInfos
    /\ video_file = PrepareFilename(info, OutputPath)
    /\ videoOnDisk = NewFile
    /\ tokenFile = "valid"
    /\ credentialsFile = TRUE
    /\ youtube = TRUE
    /\ dl = NoDownload
    /\ ps = [active |-> TRUE, playlist_id |-> None]
    /\ FreshUpload

NextCompose == Compose \/ UploadVideoBegin

SpecCompose == InitCompose /\ [][NextCompose]_vars

(***************************************************************************)
(* process_stream at step 2.5, for every listing of up to MaxPlaylists     *)
(* playlists, with and without an explicit playlist ID and for search      *)
(* terms that match none, one or several titles.                           *)
(***************************************************************************)
TermO == <<"O">>
TermNone == <<"z", "z">>

WidePlaylists ==
    { Playlist("PLfoo", TitleFoo), Playlist("PLbar", TitleBar),
      Playlist("PLtalks", TitleTalks), Playlist("PLnotes", TitleNotes) }

WideListings ==
    {[raised |-> TRUE, items |-> <<>>]}
    \cup {[raised |-> FALSE, items |-> l] :
             l \in UNION {[1..n -> WidePlaylists] : n \in 0..MaxPlaylists}}

SearchArgs ==
    { Args(FALSE, FALSE, None, None, None, id, term) :
        id \in {None, PyStr(<<"PLarg">>)},
        term \in {None, PyStr(TermFoo), PyStr(WordCybersec), PyStr(TermO),
                  PyStr(TermNone)} }

InitPlaylist ==
    /\ pc = "select_playlist"
    /\ args \in SearchArgs
    /\ info = InfoOf([title |-> PyStr(<<"B">>)])
    /\ video_file = PrepareFilename(info, OutputPath)
    /\ videoOnDisk = NewFile
    /\ tokenFile = "valid"
    /\ credentialsFile = TRUE
    /\ youtube = TRUE
    /\ dl = NoDownload
    /\ ps = NoFrame
    /\ FreshUpload

SelectPlaylistWide == SelectPlaylistFrom(WideListings)

SpecPlaylist == InitPlaylist /\ [][SelectPlaylistWide]_vars

(***************************************************************************)
(* upload_video called on its own: authenticated or not, the video file    *)
(* there or not, with and without a thumbnail and a playlist.              *)
(***************************************************************************)
InitUpload ==
    /\ pc = "upload_video"
    /\ youtube \in BOOLEAN
    /\ videoOnDisk \in {Absent, NewFile}
    /\ \E id \in {None, PyStr(<<"PLarg">>)}, thumbs \in ThumbSets :
          /\ args = Args(FALSE, FALSE, None, None, None, id, None)
          /\ info = InfoOf([title |-> PyStr(<<"B">>)])
          /\ video_file = PrepareFilename(info, OutputPath)
          /\ ps = [active |-> TRUE, playlist_id |-> id,
                   meta |-> ComposeMetadata(info, Overrides(args), video_file,
                                            OutputPath, thumbs)]
    /\ tokenFile = "valid"
    /\ credentialsFile = TRUE
    /\ dl = NoDownload
    /\ FreshUpload

NextUpload == UploadVideoBegin \/ NextChunk \/ Thumbnail \/ AddToPlaylist

SpecUpload == InitUpload /\ [][NextUpload]_vars

(***************************************************************************)
(* Properties.                                                             *)
(***************************************************************************)
RetriableStatuses == {500, 502, 503, 504}
InChunkLoop == pc = "next_chunk"
UploadCompleted == lastChunk.kind = "complete"
LastWasRetriable == lastChunk.kind = "http" /\ lastChunk.status \in RetriableStatuses
LastWasFatal ==
    \/ lastChunk.kind = "http" /\ lastChunk.status \notin RetriableStatuses
    \/ lastChunk.kind = "exception"

\* C1: in upload_video the HTTP 500/502/503/504 errors of the chunk sends are
\* counted cumulatively (the counter is never reset); after each of the
\* first 5 the chunk is sent again; an upload that completes (necessarily
\* after at most 5 such errors) returns the video ID of the response; the
\* 6th such error ends the upload with no video ID and no further chunk.
C1_RetryBudget ==
    /\ retry = errors5xx
    /\ (LastWasRetriable /\ errors5xx <= MaxRetries) => InChunkLoop
    /\ UploadCompleted =>
          /\ errors5xx <= MaxRetries
          /\ pc = "exit" => video_id = Get(response, "id", None)
          /\ (pc = "exit" /\ Truthy(video_id)) => result = "True"
    /\ errors5xx > MaxRetries =>
          /\ errors5xx = MaxRetries + 1
          /\ LastWasRetriable
          /\ pc = "exit" /\ video_id = None /\ result = "False"
          /\ chunkSends = progress + errors5xx
          /\ calls = <<>>

\* C1 witness: five retriable errors, then the upload completed and the
\* video ID was returned
C1_Witness ==
    /\ pc = "exit" /\ UploadCompleted /\ errors5xx = MaxRetries
    /\ Truthy(video_id) /\ result = "True"

\* C2: a chunk send that fails with an HTTP status other than
\* 500/502/503/504, or with any other exception, ends the upload at once:
\* it is the last chunk send, the retry counter is left as it was, no video
\* ID is returned and neither the thumbnail nor the playlist call is made.
C2_FatalErrorsAbort ==
    LastWasFatal =>
        /\ pc = "exit"
        /\ chunkSends = progress + errors5xx + 1
        /\ retry = errors5xx
        /\ video_id = None /\ result = "False" /\ exitCode = 1
        /\ calls = <<>> /\ th = NoThumb

\* C2 witness: a 403 after two retried errors
C2_Witness ==
    /\ lastChunk = [kind |-> "http", status |-> 403]
    /\ retry = 2 /\ pc = "exit"

Range(seq) == {seq[i] : i \in 1..Len(seq)}
IsPrefix(a, b) == Len(a) <= Len(b) /\ a = SubSeq(b, 1, Len(a))

DefaultMode == ~args.list_playlists /\ ~args.download_only
StageOrder == <<"download", "authenticate", "compose", "upload">>

\* download_stream returned no file, or (process_stream) none that exists
DownloadFailed ==
    /\ "download" \in Range(stages) /\ pc # "downloaded"
    /\ \/ ~Truthy(video_file)
       \/ DefaultMode /\ ~videoOnDisk.exists
\* authenticate_youtube returned False or raised
AuthFailed == au.called /\ au.ret # "True"
\* upload_video returned no video ID
UploadFailed == "upload" \in Range(stages) /\ pc = "exit" /\ ~Truthy(video_id)
StageFailed == DownloadFailed \/ AuthFailed \/ UploadFailed

\* C3 (as claimed): in process_stream the stages run in the order download,
\* authenticate, compose, upload; authentication is attempted only after a
\* download that left a file on disk, the upload only after download and
\* authentication succeeded; True is returned only with a video ID; and the
\* failure of any stage is reported as the result False.
C3_AsClaimed ==
    DefaultMode =>
        /\ IsPrefix(stages, StageOrder)
        /\ "authenticate" \in Range(stages) => Truthy(video_file) /\ videoOnDisk.exists
        /\ "upload" \in Range(stages) => Truthy(video_file) /\ videoOnDisk.exists /\ youtube
        /\ result = "True" => Truthy(video_id)
        /\ (pc = "exit" /\ StageFailed) => result = "False"

\* C4: once the upload has completed with a video ID, failures of the
\* thumbnail conversion, the thumbnail attach and the playlist attach are
\* swallowed: upload_video returns the video ID, process_stream returns True,
\* and the playlist attach is attempted whatever the thumbnail step did; a
\* failed playlist lookup by name does not stop the pipeline either.
C4_SideEffectsSwallowed ==
    /\ (pc = "exit" /\ UploadCompleted /\ Truthy(Get(response, "id", None))) =>
          /\ video_id = Get(response, "id", None)
          /\ result = "True" /\ exitCode = 0
          /\ Truthy(ps.playlist_id) =>
                calls # <<>> /\ calls[Len(calls)] = "playlistItems.insert"
    /\ (DefaultMode /\ sel.called /\ sel.listing.raised) => pc = "compose"

\* C4 witness: the thumbnail attach and the playlist attach both failed, and
\* the run reports success
C4_Witness ==
    /\ pc = "exit" /\ result = "True" /\ Truthy(video_id)
    /\ {"thumbnail_failed", "playlist_failed"} \subseteq log
    /\ calls = <<"thumbnails.set", "playlistItems.insert">>

RunFailed == DownloadFailed \/ AuthFailed \/ UploadFailed
RunSucceeded ==
    IF args.list_playlists THEN au.called /\ au.ret = "True"
    ELSE IF args.download_only THEN Truthy(video_file)
    ELSE result = "True"

Checked == dl.called /\ dl.checked
\* an expected size is known: not None and not 0, which the code treats alike
ExpectedKnown == Truthy(dl.expected)
TooFarFromExpected ==
    ExpectedKnown /\ 100 * Abs(dl.disk.size - dl.expected.int) > 5 * dl.expected.int

\* C6: _verify_file_integrity on an existing file says invalid if the file is
\* empty, invalid if an expected size is known and the actual size is more
\* than 5% away from it, invalid if the file cannot be read, and valid in
\* every other case.
C6_IntegrityVerdict ==
    (Checked /\ dl.disk.exists) =>
        dl.verified = ~(\/ dl.disk.size = 0
                        \/ TooFarFromExpected
                        \/ ~dl.disk.readable)

\* C6 witness: a readable file exactly 5% above the expected size is valid
C6_Witness ==
    /\ pc = "verified" /\ dl.verified
    /\ dl.expected = PyInt(20) /\ dl.disk = File(21, TRUE)

\* the target path was resolved and a file was there
ExistedAtTarget == dl.called /\ dl.filename # None /\ dl.disk.exists

\* C7 (as claimed): when a file exists at the resolved target path and
\* passes the integrity check, ydl.download is not invoked and that path is
\* returned; when it fails the check, the file is deleted and ydl.download
\* is invoked exactly once; ydl.download is never invoked more than once.
C7_AsClaimed ==
    /\ dl.called /\ "engine_calls" \in DOMAIN dl => dl.engine_calls <= 1
    /\ ExistedAtTarget =>
          /\ dl.checked
          /\ dl.verified = VerifyFileIntegrity(dl.disk, dl.expected)
          /\ dl.verified => /\ dl.engine_calls = 0
                            /\ video_file = dl.filename
                            /\ videoOnDisk = dl.disk
          /\ ~dl.verified => dl.removed /\ dl.engine_calls = 1

\* C7 (amended): as claimed, except that on a failed check the deletion of
\* the file is attempted, and ydl.download is invoked exactly once whether or
\* not the deletion succeeded.
C7_ReuseOrRedownload ==
    /\ dl.called /\ "engine_calls" \in DOMAIN dl => dl.engine_calls <= 1
    /\ ExistedAtTarget =>
          /\ dl.checked
          /\ dl.verified = VerifyFileIntegrity(dl.disk, dl.expected)
          /\ dl.verified => /\ dl.engine_calls = 0
                            /\ video_file = dl.filename
                            /\ videoOnDisk = dl.disk
          /\ ~dl.verified => dl.remove_tried /\ dl.engine_calls = 1

\* C7 witness: the existing file failed the check, could not be removed, and
\* ydl.download was invoked once
C7_Witness ==
    /\ pc = "downloaded" /\ ExistedAtTarget /\ ~dl.verified
    /\ dl.remove_tried /\ ~dl.removed /\ dl.engine_calls = 1

\* C8: authenticate_youtube writes the token file if and only if it
\* refreshed the credential or obtained one by the interactive flow; a valid
\* persisted token leaves the token file unchanged, and so does a failure
\* for a missing credentials file.
C8_TokenFileWrites ==
    /\ tokenWrites <= 1
    /\ au.called =>
          /\ tokenWrites = 1 <=> au.path \in {"refresh", "flow"}
          /\ au.before = "valid" => tokenWrites = 0 /\ tokenFile = au.before
          /\ (au.before \in {"absent", "unusable"} /\ ~credentialsFile) =>
                /\ au.ret = "False"
                /\ tokenWrites = 0 /\ tokenFile = au.before

\* C8 witness: an expired credential was refreshed and the token file written
C8_Witness ==
    /\ au.called /\ au.before = "expired" /\ au.ret = "True"
    /\ tokenWrites = 1 /\ tokenFile = "valid"

BodyBuilt == body # NoBody
Extracted(k) == Get(info, k, None)

\* C9 (as claimed): each of title, description and tags of the request body
\* is the caller's override if one was supplied, else the extracted value if
\* the metadata has one, else the built-in default: the title derived from
\* the file name stem, the one fixed description, the empty tag list.
C9_AsClaimed ==
    BodyBuilt =>
        /\ body.title =
              (IF Truthy(args.title) THEN args.title
               ELSE IF Truthy(Extracted("title")) THEN Extracted("title")
               ELSE PyStr(<<"Re-uploaded Stream - ">> \o PathStem(video_file.str)))
        /\ body.description =
              (IF Truthy(args.description) THEN args.description
               ELSE IF Truthy(Extracted("description")) THEN Extracted("description")
               ELSE PyStr(<<"Video downloaded from live stream and re-uploaded.">>))
        /\ body.tags =
              (IF Truthy(args.tags) THEN args.tags
               ELSE IF Truthy(Extracted("tags")) THEN Extracted("tags")
               ELSE PyList(<<>>))

WellFormedDate(v) ==
    IsStr(v) /\ Len(v.str) = 8 /\ \A i \in 1..8 : v.str[i] \in Digits

\* C10 (as claimed): an 8-character all-digit recording date YYYYMMDD gives
\* recordingDate = YYYY-MM-DDT00:00:00.000Z in the request body; for any other
\* non-empty recording date the field is omitted, a warning is logged and the
\* upload proceeds.
C10_AsClaimed ==
    LET d == ps.meta.recording_date
    IN (BodyBuilt /\ Truthy(d)) =>
          IF WellFormedDate(d)
          THEN body.recordingDate =
                  PyStr(<<d.str[1], d.str[2], d.str[3], d.str[4], "-", d.str[5], d.str[6],
                          "-", d.str[7], d.str[8], "T00:00:00.000Z">>)
          ELSE /\ body.recordingDate = Missing
               /\ "invalid_recording_date" \in log
               /\ pc = "next_chunk"

\* playlist resolution by search term has run
Resolved == pc = "compose" /\ sel.called
SearchTerm == args.playlist_search.str
TitleHas(word, p) == Contains(Lower(word), Lower(p.title))
\* the positions in the listing whose title contains the search term
MatchingPositions == {i \in 1..Len(sel.playlists) : TitleHas(SearchTerm, sel.playlists[i])}
\* the k-th of them in listing order
KthMatching(k) ==
    CHOOSE i \in MatchingPositions : Cardinality({j \in MatchingPositions : j <= i}) = k
\* the positions among the candidates whose title has both words
Preferred ==
    {k \in 1..Len(sel.matches) :
        TitleHas(WordCybersec, sel.matches[k]) /\ TitleHas(WordTuesday, sel.matches[k])}
SelectedPlaylist ==
    IF Preferred # {}
    THEN sel.matches[CHOOSE k \in Preferred : \A m \in Preferred : k <= m].id
    ELSE IF sel.matches # <<>> THEN sel.matches[1].id
    ELSE None

\* C11: with a search term and no explicit playlist ID, the candidates are
\* exactly the playlists of the listing whose title contains the search term
\* case-insensitively, in listing order; the selected playlist is the first
\* candidate whose title contains both "cybersec" and "tuesday" if there is
\* one, otherwise the first candidate, otherwise none.  With an explicit
\* playlist ID that ID is used unchanged and no search is made.  (The listing
\* is what list_playlists returned: empty when the request failed.)
C11_PlaylistResolution ==
    /\ Resolved =>
          /\ Truthy(args.playlist_search) /\ ~Truthy(args.playlist)
          /\ Len(sel.matches) = Cardinality(MatchingPositions)
          /\ \A k \in 1..Len(sel.matches) : sel.matches[k] = sel.playlists[KthMatching(k)]
          /\ ps.playlist_id = SelectedPlaylist
    /\ (pc = "compose" /\ Truthy(args.playlist)) =>
          ps.playlist_id = args.playlist /\ ~sel.called
    /\ (pc = "compose" /\ ~Truthy(args.playlist_search)) =>
          ps.playlist_id = args.playlist /\ ~sel.called

\* C11 witness: "cybersec" matches two playlists and the second, the one
\* with "tuesday" in its title, is selected
C11_Witness ==
    /\ Resolved /\ SearchTerm = WordCybersec
    /\ Len(sel.matches) = 2
    /\ sel.matches[1].title = TitleNotes
    /\ ps.playlist_id = PyStr(<<"PLtalks">>)

\* _upload_thumbnail has returned from its conversion branch
ConvertedBranch ==
    th.called /\ FileExt(th.thumbnail_file.str) \notin DirectThumbnailExts
AttachFailed == "thumbnail_failed" \in log

\* C12 (as claimed): for a thumbnail that is not jpg/jpeg/png, whenever the
\* conversion produced a temporary converted JPEG file, that file is gone
\* when _upload_thumbnail returns, whether the attach call succeeded or
\* failed; the original thumbnail file is never deleted.
C12_AsClaimed ==
    ConvertedBranch =>
        /\ th.produced => ~convertedOnDisk
        /\ th.thumbnail_file \notin th.removed

Count(seq, x) == Cardinality({i \in 1..Len(seq) : seq[i] = x})
\* the chunked upload completed with a response
CompletedWithResponse == UploadCompleted /\ Truthy(response)
\* the chunked upload ended without one
UploadAborted ==
    \/ LastWasFatal
    \/ LastWasRetriable /\ pc = "exit"
    \/ UploadCompleted /\ ~Truthy(response)
\* upload_video was entered without a client or without the file
EntryRefused == pc = "exit" /\ (~youtube \/ ~videoOnDisk.exists)

\* C13: a thumbnail attach or a playlist insert is made only after the
\* chunked upload has completed with a response, each at most once, the
\* attach before the insert; when the upload is aborted or fails neither is
\* made, and when upload_video is entered without authentication or with a
\* file path that does not exist, no chunk is sent and neither is made.
C13_CallOrdering ==
    /\ calls # <<>> => CompletedWithResponse /\ pc \in {"playlist", "exit"}
    /\ Count(calls, "thumbnails.set") <= 1
    /\ Count(calls, "playlistItems.insert") <= 1
    /\ \A i, j \in 1..Len(calls) :
          (calls[i] = "playlistItems.insert" /\ calls[j] = "thumbnails.set") => j < i
    /\ UploadAborted => calls = <<>> /\ ~Truthy(video_id)
    /\ EntryRefused => chunkSends = 0 /\ calls = <<>> /\ body = NoBody

\* C13 witness: after a retried chunk the upload completed, the thumbnail
\* was attached and then the video was added to the playlist
C13_Witness ==
    /\ pc = "exit" /\ CompletedWithResponse /\ errors5xx > 0
    /\ calls = <<"thumbnails.set", "playlistItems.insert">>
    /\ log = {"upload_successful"}

====
